---- MODULE Spec2Model ----
(***************************************************************************)
(* Model of the voice assistant: the AnswerAgent (src/answer_agent.py: the  *)
(* fuzzy matcher over the QA database, the fallback web search and the     *)
(* get_answer orchestrator), transcribe_audio (src/audio_processing.py and *)
(* src/speech_recognition.py) and the request handling of                  *)
(* src/voice_assistant.py.                                                 *)
(*                                                                         *)
(* Python values are records [t, v]: t is the Python type, v the text as a *)
(* sequence of tokens (characters, or whole literal fragments of the       *)
(* messages the code builds).  None is [t |-> "NoneType", v |-> <<>>].     *)
(***************************************************************************)
EXTENDS Integers, Sequences, FiniteSets, TLC

VARIABLES
    file,             \* the QA database file found at construction
    env_key,          \* os.getenv("TAVILY_API_KEY")
    wratio,           \* the scoring library's score for two distinct normalized texts
    qa_database,      \* self.qa_database["questions"]
    has_questions,    \* self.qa_database has the key "questions"
    tavily_api_key,   \* self.tavily_api_key
    tavily_client,    \* self.tavily_client: "unset" while the attribute was never created
    pc,               \* position of the running call
    op,               \* the public method that was called
    query,            \* argument of the running call
    threshold,        \* threshold argument of find_best_match_in_database
    best,             \* (best_match, score) returned by process.extractOne
    nscores,          \* similarity scores computed during the running call
    database_answer,  \* value returned by find_best_match_in_database
    response,         \* what the search provider answered to the running call
    web_answer,       \* value returned by search_web
    result,           \* value returned by get_answer
    trace,            \* methods entered during the running call, in order
    requests,         \* requests sent to the search provider during the running call
    client_touched,   \* self.tavily_client was read during the running call
    raised,           \* an exception escaped the running call
    stt,              \* the running transcribe_audio call (see NoTranscription)
    ui                \* the request handled by voice_assistant.main (see NoRequest)

vars == <<file, env_key, wratio, qa_database, has_questions, tavily_api_key,
          tavily_client, pc, op, query, threshold, best, nscores,
          database_answer, response, web_answer, result, trace, requests,
          client_touched, raised, stt, ui>>

\* the environment and the attributes of the AnswerAgent
agent == <<file, env_key, wratio, qa_database, has_questions, tavily_api_key,
           tavily_client>>

\* the locals of a call of an AnswerAgent method
call == <<pc, op, query, threshold, best, nscores, database_answer, response,
          web_answer, result, trace, requests, client_touched, raised>>

-----------------------------------------------------------------------------
(* Bounds *)

MaxEntries == 2

MaxResults == 4

-----------------------------------------------------------------------------
(* Python values *)

PyNone == [t |-> "NoneType", v |-> <<>>]

PyStr(s) == [t |-> "str", v |-> s]

\* Python truthiness of None and of a str
Truthy(x) == x.t = "str" /\ x.v # <<>>

Min(a, b) == IF a <= b THEN a ELSE b

SeqsUpTo(S, n) == UNION {[1..k -> S] : k \in 0..n}

-----------------------------------------------------------------------------
(* Texts of queries, stored questions and stored answers *)

QuestionTexts == {<<"?">>, <<"a">>, <<"b">>}

QueryTexts == QuestionTexts \cup {<<>>, <<"A">>}

AnswerTexts == {<<>>, <<"x">>, <<"y">>}

Entries == [question : QuestionTexts, answer : AnswerTexts]

Databases == SeqsUpTo(Entries, MaxEntries)

\* values os.getenv can give: unset, set to the empty string, set to a key
KeyValues == {PyNone, PyStr(<<>>), PyStr(<<"k">>)}

DefaultThreshold == 80

Thresholds == {0, 80, 100}

\* scores the library can give to two distinct, non-empty normalized texts
\* (the rounded ratio of two long texts that differ in one character is 100)
NearScores == {0, 79, 80, 100}

-----------------------------------------------------------------------------
(* fuzzywuzzy: utils.full_process, fuzz.WRatio, process.extractOne, as      *)
(* called at answer_agent.py line 69 with the default processor and scorer *)

\* to_lower_case, after replace_non_letters_non_numbers_with_whitespace
NormChar(c) ==
    CASE c = "A" -> "a"
      [] c = "B" -> "b"
      [] c = "?" -> " "
      [] OTHER -> c

RECURSIVE LStrip(_)
LStrip(s) == IF s # <<>> /\ Head(s) = " " THEN LStrip(Tail(s)) ELSE s

RECURSIVE RStrip(_)
RStrip(s) ==
    IF s # <<>> /\ s[Len(s)] = " " THEN RStrip(SubSeq(s, 1, Len(s) - 1)) ELSE s

\* utils.full_process: non-alphanumerics to spaces, lower case, strip
full_process(s) == RStrip(LStrip([i \in 1..Len(s) |-> NormChar(s[i])]))

NormTexts == {full_process(s) : s \in QueryTexts} \ {<<>>}

NearPairs == {p \in NormTexts \X NormTexts : p[1] # p[2]}

\* the library's ratio is the same in both directions
ScoreTables ==
    {w \in [NearPairs -> NearScores] : \A p \in NearPairs : w[p] = w[<<p[2], p[1]>>]}

\* fuzz.WRatio on normalized texts: 0 when either is empty, 100 when they are
\* equal, otherwise the library's weighted edit-distance ratio
WRatio(p1, p2) ==
    IF p1 = <<>> \/ p2 = <<>> THEN 0
    ELSE IF p1 = p2 THEN 100
    ELSE wratio[<<p1, p2>>]

Score(q, choice) == WRatio(full_process(q), full_process(choice))

MaxLast(acc, choice, score) ==
    IF score >= acc[2] THEN <<choice, score>> ELSE acc

\* max(best_list, key=score): a later element replaces the running maximum
\* only when its score is strictly greater
MaxFirst(acc, choice, score) ==
    IF score > acc[2] THEN <<choice, score>> ELSE acc

RECURSIVE MaxFrom(_, _, _, _)
MaxFrom(q, choices, i, acc) ==
    IF i > Len(choices) THEN acc
    ELSE MaxFrom(q, choices, i + 1, MaxFirst(acc, choices[i], Score(q, choices[i])))

\* process.extractOne(query, choices): None (<<>>) when there is no choice
extractOne(q, choices) ==
    IF choices = <<>> THEN <<>>
    ELSE MaxFrom(q, choices, 2, <<choices[1], Score(q, choices[1])>>)

-----------------------------------------------------------------------------
(* AnswerAgent.find_best_match_in_database *)

NoComputationEmptyDbOnly(q, db) == db = <<>>

\* line 62: if not query or not self.qa_database["questions"]
NoComputation(q, db) == ~Truthy(q) \/ db = <<>>

MeetsThresholdStrict(score, t) == score > t

\* line 74: if score >= threshold
MeetsThreshold(score, t) == score >= t

\* line 66: questions = [q["question"] for q in self.qa_database["questions"]]
Questions(db) == [i \in 1..Len(db) |-> db[i].question]

\* lines 75-77: the answer of the first item whose question equals best_match
RECURSIVE LookupLastFrom(_, _, _)
LookupLastFrom(db, best_match, i) ==
    LET later == IF i >= Len(db) THEN PyNone ELSE LookupLastFrom(db, best_match, i + 1) IN
    IF i > Len(db) THEN PyNone
    ELSE IF later # PyNone THEN later
    ELSE IF db[i].question = best_match THEN PyStr(db[i].answer)
    ELSE PyNone

RECURSIVE LookupFrom(_, _, _)
LookupFrom(db, best_match, i) ==
    IF i > Len(db) THEN PyNone
    ELSE IF db[i].question = best_match THEN PyStr(db[i].answer)
    ELSE LookupFrom(db, best_match, i + 1)

\* The whole method: its return value, the pair extractOne gave, the number
\* of scores computed and whether an exception escaped (unpacking None at
\* line 69 is a TypeError, which nothing catches).
find_best_match_in_database(q, t, db) ==
    IF NoComputation(q, db)
    THEN [answer |-> PyNone, best |-> <<>>, nscores |-> 0, raised |-> FALSE]
    ELSE LET b == extractOne(q.v, Questions(db)) IN
         IF b = <<>>
         THEN [answer |-> PyNone, best |-> <<>>, nscores |-> 0, raised |-> TRUE]
         ELSE [answer  |-> IF MeetsThreshold(b[2], t)
                           THEN LookupFrom(db, b[1], 1) ELSE PyNone,
               best    |-> b,
               nscores |-> Len(db),
               raised  |-> FALSE]

-----------------------------------------------------------------------------
(* AnswerAgent.search_web *)

ExcerptLen == 300

ShownResults == 3

NoKeyMessage ==
    PyStr(<<"Web search is not available because the Tavily API key is missing.">>)

NotFoundMessage ==
    PyStr(<<"I couldn't find relevant information on the web for your question.">>)

ErrorPrefix == "Sorry, there was an error while searching the web: "

Header == "Here's what I found on the web:\n\n"

\* str(i) for the numbers enumerate(..., 1) gives
NumStr == <<"1", "2", "3", "4", "5", "6", "7", "8", "9">>

\* a text of n characters; the characters differ so that a prefix is
\* recognizable
Chars(n) == [i \in 1..n |-> IF i > ExcerptLen THEN "z" ELSE IF i % 2 = 1 THEN "p" ELSE "q"]

\* one element of the provider's "results" list
\*   kind "dict": a mapping, with or without the keys title and content;
\*   content_none: the key content is present with value None;
\*   kind "str":  not a mapping (a malformed result)
Item(kind, has_title, title, has_content, content_none, content) ==
    [kind |-> kind, has_title |-> has_title, title |-> title,
     has_content |-> has_content, content_none |-> content_none,
     content |-> content]

ShortItem == Item("dict", TRUE, <<"T", "1">>, TRUE, FALSE, Chars(2))

ExactItem == Item("dict", TRUE, <<"T", "2">>, TRUE, FALSE, Chars(ExcerptLen))

LongItem == Item("dict", TRUE, <<"T", "3">>, TRUE, FALSE, Chars(ExcerptLen + 1))

BareItem == Item("dict", FALSE, <<>>, FALSE, FALSE, <<>>)

NoneContentItem == Item("dict", TRUE, <<"T", "4">>, TRUE, TRUE, <<>>)

StrItem == Item("str", FALSE, <<>>, FALSE, FALSE, <<>>)

WellFormedItems == {ShortItem, ExactItem, LongItem, BareItem}

Items == WellFormedItems \cup {StrItem}

\* what tavily_client.search can do: raise, or return a value of some shape
\*   "none": None; "no_results": a mapping without the key results;
\*   "scalar": a number; "results_none": {"results": None};
\*   "results": {"results": [...]}
Resp(exc, shape, results) == [exc |-> exc, shape |-> shape, results |-> results]

NoResponse == Resp("", "", <<>>)

FailedResponses == {Resp(e, "", <<>>) : e \in {"ConnectionError: timed out", "InvalidAPIKeyError"}}

OddResponses ==
    {Resp("", sh, <<>>) : sh \in {"none", "no_results", "scalar", "results_none"}}
      \cup {Resp("", "results", <<NoneContentItem>>)}

ResultResponses(ItemSet, n) == {Resp("", "results", rs) : rs \in SeqsUpTo(ItemSet, n)}

\* the responses of the provider in the two specifications
CoreResponses ==
    {Resp("ConnectionError: timed out", "", <<>>),
     Resp("", "results", <<ShortItem>>)}

AllResponses ==
    FailedResponses \cup OddResponses \cup ResultResponses(Items, MaxResults)

AllShown(results) == results

\* line 104: search_result["results"][:3]
Shown(results) == SubSeq(results, 1, Min(Len(results), ShownResults))

\* result.get('title', 'No title')
TitleOf(item) == IF item.has_title THEN item.title ELSE <<"No title">>

\* result.get('content', 'No content')
ContentOf(item) == IF item.has_content THEN item.content ELSE <<"No content">>

\* s[:300]
Take(s, n) == SubSeq(s, 1, Min(Len(s), n))

\* the exception formatting one result raises, "" when it raises none
ItemError(item) ==
    IF item.kind # "dict" THEN "'str' object has no attribute 'get'"
    ELSE IF item.has_content /\ item.content_none
         THEN "'NoneType' object is not subscriptable"
    ELSE ""

\* lines 105-106: the two lines appended for result number i
EntryText(i, item) ==
    <<NumStr[i], ". ">> \o TitleOf(item) \o <<"\n", "   ">>
      \o Take(ContentOf(item), ExcerptLen) \o <<"...", "\n\n">>

\* lines 102-108: the loop; it stops at the first result that raises.
\* Gives the text built and the exception ("" when the loop completed).
RECURSIVE FormatFrom(_, _, _)
FormatFrom(shown, i, text) ==
    IF i > Len(shown) THEN [text |-> text, exc |-> ""]
    ELSE IF ItemError(shown[i]) # "" THEN [text |-> text, exc |-> ItemError(shown[i])]
    ELSE FormatFrom(shown, i + 1, text \o EntryText(i, shown[i]))

\* lines 97-110 inside the try: the value returned, or the exception raised
TryBody(r) ==
    IF r.exc # "" THEN [ret |-> PyNone, exc |-> r.exc]
    ELSE IF r.shape \in {"none", "no_results"} THEN [ret |-> NotFoundMessage, exc |-> ""]
    ELSE IF r.shape = "scalar"
         THEN [ret |-> PyNone, exc |-> "argument of type 'int' is not iterable"]
    ELSE IF r.shape = "results_none"
         THEN [ret |-> PyNone, exc |-> "'NoneType' object is not subscriptable"]
    ELSE LET f == FormatFrom(Shown(r.results), 1, <<Header>>) IN
         IF f.exc # "" THEN [ret |-> PyNone, exc |-> f.exc]
         ELSE [ret |-> PyStr(f.text), exc |-> ""]

CatchesOnlyRequestErrors(e) == e \in {"ConnectionError: timed out", "InvalidAPIKeyError"}

\* line 112: except Exception
Catches(e) == TRUE

\* lines 94-114: the value search_web returns for a provider response, and
\* whether the exception escapes
HandleResponse(r) ==
    LET b == TryBody(r) IN
    IF b.exc = "" THEN [ret |-> b.ret, raised |-> FALSE]
    ELSE IF Catches(b.exc) THEN [ret |-> PyStr(<<ErrorPrefix, b.exc>>), raised |-> FALSE]
    ELSE [ret |-> PyNone, raised |-> TRUE]

RetryAfterFailure(r) ==
    IF r.exc # "" THEN "search"
    ELSE IF HandleResponse(r).raised THEN "done" ELSE "searched"

\* lines 108-114: search_web returns from the try or from the except clause,
\* or the exception leaves it; nothing leads back to the request
NextAfterResponse(r) == IF HandleResponse(r).raised THEN "done" ELSE "searched"

SearchAlways(key) == TRUE

\* line 91: the search goes on only when the key is truthy
SearchAvailable(key) == Truthy(key)

BasicRequest(q) == [query |-> q, search_depth |-> "basic"]

\* line 97: self.tavily_client.search(query=query, search_depth="advanced")
SearchRequest(q) == [query |-> q, search_depth |-> "advanced"]

-----------------------------------------------------------------------------
(* AnswerAgent.get_answer *)

AfterMatchEager(ans) == "search"

\* line 130: if database_answer: return the database result; else search
AfterMatch(ans) == IF Truthy(ans) THEN "return_database" ELSE "search"

NoResult == [source |-> "", answer |-> PyNone]

-----------------------------------------------------------------------------
(* transcribe_audio and upload_file (audio_processing.py, and the same code *)
(* in speech_recognition.py, which can also save the text to a file)       *)

MaxPolls == 3

\* an answer of the speech-to-text provider to one HTTP request: the request
\* raised (exc), or it gave a status code and a body; body names what the
\* body holds, text is the "text" field of a completed transcript
Http(exc, code, body, text) == [exc |-> exc, code |-> code, body |-> body, text |-> text]

NoHttp == Http(FALSE, 0, "", PyNone)

\* transcripts the provider can deliver: null, the empty text, some words
TranscriptTexts == {PyNone, PyStr(<<>>), PyStr(<<"a">>), PyStr(<<"b">>)}

\* answers to the upload and to the transcript request: "ok" carries the
\* field the code reads (upload_url, id), "empty" carries it empty
PostResponses ==
    {Http(TRUE, 0, "", PyNone)}
      \cup {Http(FALSE, 500, b, PyNone) : b \in {"not_json", "ok"}}
      \cup {Http(FALSE, 200, b, PyNone) : b \in {"not_json", "no_field", "empty", "ok"}}

\* answers to a poll: the body is not JSON, has no "status", or has one
PollBodies == {"not_json", "no_status", "queued", "processing", "error"}

PollResponses ==
    {Http(TRUE, 0, "", PyNone)}
      \cup {Http(FALSE, c, b, PyNone) : c \in {200, 500}, b \in PollBodies}
      \cup {Http(FALSE, c, "completed", t) : c \in {200, 500}, t \in TranscriptTexts}

\* the two modules that define transcribe_audio, and the output_file
\* argument of the one in speech_recognition: not given, a path that can be
\* written, a path that cannot
Impls == {"audio_processing", "speech_recognition"}

OutputFiles(impl) ==
    IF impl = "speech_recognition" THEN {"none", "writable", "unwritable"} ELSE {"none"}

\* upload_file, lines 31-46: the upload_url of a 200 answer; None for any
\* other status and for any exception (open, transport, json, missing key)
upload_file(r) ==
    IF r.exc THEN PyNone
    ELSE IF r.code # 200 THEN PyNone
    ELSE IF r.body = "ok" THEN PyStr(<<"u">>)
    ELSE IF r.body = "empty" THEN PyStr(<<>>)
    ELSE PyNone

\* lines 66-67: if not upload_url: return None
UploadFailed(upload_url) == ~Truthy(upload_url)

\* lines 80-87 and 126-139: the request is accepted when it answers 200 with a
\* JSON body that has an id; anything else returns None
RequestAccepted(r) == ~r.exc /\ r.code = 200 /\ r.body \in {"ok", "empty"}

KeepPollingUpTo(n) == n < MaxPolls

\* line 96: while True
KeepPolling(n) == TRUE

\* lines 99-110: what the loop does with the status of a poll answer
OnStatus(status) ==
    CASE status = "completed" -> "return_text"
      [] status = "error" -> "return_none"
      [] OTHER -> "poll_again"

\* speech_recognition lines 106-109: saving the text raises when the path
\* cannot be opened for writing and when the text is None
SaveRaises(impl, output_file, text) ==
    /\ impl = "speech_recognition"
    /\ output_file # "none"
    /\ output_file = "unwritable" \/ text = PyNone

\* lines 97-125 for one poll answer: poll again, or return a value.  The
\* status code of the answer is not read; .json() and ["status"] raise on a
\* body that is not JSON or has no status, and every exception raised inside
\* the try (lines 79-139) returns None.
\* The calls that display the progress (lines 100-102, 113-122) are taken
\* to return.
PollStep(r, impl, output_file) ==
    IF r.exc \/ r.body \in {"not_json", "no_status"}
    THEN [next |-> "returned", ret |-> PyNone]
    ELSE LET todo == OnStatus(r.body) IN
         IF todo = "return_text"
         THEN [next |-> "returned",
               ret  |-> IF SaveRaises(impl, output_file, r.text) THEN PyNone ELSE r.text]
         ELSE IF todo = "return_none" THEN [next |-> "returned", ret |-> PyNone]
         ELSE [next |-> "poll", ret |-> PyNone]

\* the state of a transcribe_audio call:
\*   tpc            where the call is: idle, upload, request, poll, returned
\*   upload         the answer to the upload ("" code 0 while there was none)
\*   request        the answer to the transcript request
\*   poll           the answer to the last poll, prev_poll to the one before
\*   nuploads, nrequests, npolls
\*                  requests of each kind sent (npolls stops counting at
\*                  MaxPolls; the polling itself does not stop)
\*   transcription  the value returned
NoTranscription ==
    [impl |-> "", output_file |-> "", tpc |-> "idle",
     upload |-> NoHttp, request |-> NoHttp, poll |-> NoHttp, prev_poll |-> NoHttp,
     nuploads |-> 0, nrequests |-> 0, npolls |-> 0,
     transcription |-> PyNone]

\* transcribe_audio is entered
StartTranscription(impl, output_file) ==
    [NoTranscription EXCEPT !.impl = impl, !.output_file = output_file, !.tpc = "upload"]

\* lines 59-67: the upload, and the return when it failed
UploadStep(r) ==
    [stt EXCEPT !.upload = r,
                !.nuploads = @ + 1,
                !.tpc = IF UploadFailed(upload_file(r)) THEN "returned" ELSE "request"]

\* lines 79-95 and 126-139: the transcript request
RequestStep(r) ==
    [stt EXCEPT !.request = r,
                !.nrequests = @ + 1,
                !.tpc = IF RequestAccepted(r) /\ KeepPolling(0) THEN "poll" ELSE "returned"]

\* lines 96-125: one turn of the loop
PollTurn(r) ==
    LET step == PollStep(r, stt.impl, stt.output_file)
        n == Min(stt.npolls + 1, MaxPolls)
    IN [stt EXCEPT !.prev_poll = stt.poll,
                   !.poll = r,
                   !.npolls = n,
                   !.tpc = IF step.next = "poll" /\ ~KeepPolling(n) THEN "returned"
                           ELSE step.next,
                   !.transcription = step.ret]

Upload ==
    /\ stt.tpc = "upload"
    /\ \E r \in PostResponses : stt' = UploadStep(r)
    /\ UNCHANGED <<agent, call, ui>>

RequestTranscript ==
    /\ stt.tpc = "request"
    /\ \E r \in PostResponses : stt' = RequestStep(r)
    /\ UNCHANGED <<agent, call, ui>>

\* a poll whose answer makes the loop go on
PollPending ==
    /\ stt.tpc = "poll"
    /\ \E r \in PollResponses :
        /\ PollTurn(r).tpc = "poll"
        /\ stt' = PollTurn(r)
    /\ UNCHANGED <<agent, call, ui>>

\* a poll whose answer ends the call
PollEnding ==
    /\ stt.tpc = "poll"
    /\ \E r \in PollResponses :
        /\ PollTurn(r).tpc = "returned"
        /\ stt' = PollTurn(r)
    /\ UNCHANGED <<agent, call, ui>>

\* a script calls transcribe_audio (speech_recognition.main, line 147)
CallTranscribe ==
    /\ stt.tpc = "idle"
    /\ ui.vpc = "idle"
    /\ \E impl \in Impls : \E out \in OutputFiles(impl) :
          stt' = StartTranscription(impl, out)
    /\ UNCHANGED <<agent, call, ui>>

\* the caller has the value; the next call can start
TranscribeDone ==
    /\ stt.tpc = "returned"
    /\ ui.vpc = "idle"
    /\ stt' = NoTranscription
    /\ UNCHANGED <<agent, call, ui>>

-----------------------------------------------------------------------------
(* voice_assistant.main, the "Process Question" request, and               *)
(* process_audio_and_answer                                                *)

MaxTmpFiles == 2

TranscriptionIsNone(transcription) == transcription = PyNone

\* line 36: if not transcription
TranscriptionFailed(transcription) == ~Truthy(transcription)

\* the state of the page:
\*   vpc            where the script run is: idle (no request, or the run is
\*                  over), transcribing, answer, unlink, show, crashed (an
\*                  exception ended the run)
\*   tmp_files      temporary input files on disk
\*   transcribed    transcribe_audio has returned in this request
\*   transcription  the value it returned
\*   returned       process_audio_and_answer has returned, ret_transcription
\*                  and response are the pair it returned (NoResult: None)
\*   get_answer_calls  calls of get_answer in this request
\*   displayed      the answer was displayed (lines 137-144)
\*   tts_called     text_to_speech was called (line 151)
\*   speech_file    it gave a file, which was played (lines 153-157)
NoRequest ==
    [vpc |-> "idle", tmp_files |-> 0, transcribed |-> FALSE,
     transcription |-> PyNone, returned |-> FALSE, ret_transcription |-> PyNone,
     response |-> NoResult, get_answer_calls |-> 0, displayed |-> FALSE,
     tts_called |-> FALSE, speech_file |-> FALSE]

-----------------------------------------------------------------------------
(* The state machine *)

\* the QA database file: absent, unreadable or not JSON (ok = FALSE), or
\* JSON; keyed tells whether the JSON value is a mapping with the key
\* "questions", data is the table of question/answer pairs under that key
QAFile(ok, keyed, data) == [ok |-> ok, keyed |-> keyed, data |-> data]

Files == {QAFile(FALSE, FALSE, <<>>)} \cup {QAFile(TRUE, TRUE, d) : d \in Databases}

SmallFiles ==
    {QAFile(FALSE, FALSE, <<>>),
     QAFile(TRUE, TRUE, <<[question |-> <<"a">>, answer |-> <<"x">>]>>)}

\* json.load accepts any JSON value: a file without the key "questions"
VoiceFiles == SmallFiles \cup {QAFile(TRUE, FALSE, <<>>)}

LoadOrSample(f) ==
    IF f.ok THEN [keyed |-> f.keyed, questions |-> f.data]
    ELSE [keyed |-> TRUE, questions |-> <<[question |-> <<"a">>, answer |-> <<"x">>]>>]

\* _load_qa_database, lines 43-49: the content of the file, or the empty
\* database {"questions": []} when loading fails
load_qa_database(f) ==
    IF f.ok THEN [keyed |-> f.keyed, questions |-> f.data]
    ELSE [keyed |-> TRUE, questions |-> <<>>]

CacheWebAnswer(db, q, ans) ==
    IF Len(db) <= MaxEntries THEN Append(db, [question |-> q.v, answer |-> <<"x">>]) ELSE db

\* get_answer lines 137-142: the web answer is returned, not stored
DatabaseAfterWebAnswer(db, q, ans) == db

\* the locals of a call, before any call
NoCall ==
    /\ op = "" /\ query = PyNone /\ threshold = DefaultThreshold
    /\ best = <<>> /\ nscores = 0 /\ database_answer = PyNone
    /\ response = NoResponse /\ web_answer = PyNone /\ result = NoResult
    /\ trace = <<>> /\ requests = <<>> /\ client_touched = FALSE
    /\ raised = FALSE

InitWith(FileSet, Tables) ==
    /\ file \in FileSet
    /\ env_key \in KeyValues
    /\ wratio \in Tables
    /\ qa_database = <<>>
    /\ has_questions = TRUE
    /\ tavily_api_key = PyNone
    /\ tavily_client = "unset"
    /\ pc = "new"
    /\ NoCall
    /\ stt = NoTranscription
    /\ ui = NoRequest

Init == InitWith(Files, ScoreTables)

InitSearch == InitWith(SmallFiles, {[p \in NearPairs |-> 0]})

\* AnswerAgent.__init__ with _load_qa_database: a file that cannot be loaded
\* gives the empty database; the client is created only for a truthy key
Construct ==
    /\ pc = "new"
    /\ qa_database' = load_qa_database(file).questions
    /\ has_questions' = load_qa_database(file).keyed
    /\ tavily_api_key' = env_key
    /\ tavily_client' = IF Truthy(env_key) THEN "client" ELSE "unset"
    /\ pc' = "idle"
    /\ UNCHANGED <<file, env_key, wratio, op, query, threshold, best, nscores,
                   database_answer, response, web_answer, result, trace,
                   requests, client_touched, raised>>
    /\ UNCHANGED <<stt, ui>>

\* a caller invokes one of the three public methods
Call(method, q, t) ==
    /\ pc = "idle"
    /\ op' = method
    /\ query' = PyStr(q)
    /\ threshold' = t
    /\ pc' = IF method = "search_web" THEN "search" ELSE "match"
    /\ UNCHANGED <<agent, best, nscores, database_answer, response, web_answer,
                   result, trace, requests, client_touched, raised>>
    /\ UNCHANGED <<stt, ui>>

CallGetAnswer == \E q \in QueryTexts : Call("get_answer", q, DefaultThreshold)

CallFindBestMatch ==
    \E q \in QueryTexts, t \in Thresholds : Call("find_best_match_in_database", q, t)

CallSearchWeb == \E q \in QueryTexts : Call("search_web", q, DefaultThreshold)

\* line 62 on a database without the key "questions": the subscript raises
\* KeyError (it is evaluated only when the query is truthy)
KeyErrorOutcome == [answer |-> PyNone, best |-> <<>>, nscores |-> 0, raised |-> TRUE]

\* the body of find_best_match_in_database, called directly or by
\* get_answer (line 128); an exception leaves both
FindBestMatch ==
    /\ pc = "match"
    /\ LET m == IF has_questions \/ ~Truthy(query)
                THEN find_best_match_in_database(query, threshold, qa_database)
                ELSE KeyErrorOutcome IN
        /\ database_answer' = m.answer
        /\ best' = m.best
        /\ nscores' = m.nscores
        /\ raised' = m.raised
        /\ pc' = IF m.raised \/ op = "find_best_match_in_database" THEN "done"
                 ELSE AfterMatch(m.answer)
    /\ trace' = Append(trace, "find_best_match_in_database")
    /\ UNCHANGED <<agent, op, query, threshold, response, web_answer, result,
                   requests, client_touched>>
    /\ UNCHANGED <<stt, ui>>

\* get_answer lines 130-134
ReturnDatabase ==
    /\ pc = "return_database"
    /\ result' = [source |-> "database", answer |-> database_answer]
    /\ pc' = "done"
    /\ UNCHANGED <<agent, op, query, threshold, best, nscores, database_answer,
                   response, web_answer, trace, requests, client_touched, raised>>
    /\ UNCHANGED <<stt, ui>>

\* search_web lines 91-92: no key, the fixed message
SearchUnavailable ==
    /\ pc = "search"
    /\ ~SearchAvailable(tavily_api_key)
    /\ web_answer' = NoKeyMessage
    /\ trace' = Append(trace, "search_web")
    /\ pc' = "searched"
    /\ UNCHANGED <<agent, op, query, threshold, best, nscores, database_answer,
                   response, result, requests, client_touched, raised>>
    /\ UNCHANGED <<stt, ui>>

\* search_web line 97: the request goes out; reading a tavily_client that was
\* never created is an AttributeError raised inside the try
SendRequest ==
    /\ pc = "search"
    /\ SearchAvailable(tavily_api_key)
    /\ trace' = Append(trace, "search_web")
    /\ client_touched' = TRUE
    /\ IF tavily_client = "unset"
       THEN /\ response' = Resp("'AnswerAgent' object has no attribute 'tavily_client'", "", <<>>)
            /\ web_answer' = HandleResponse(response').ret
            /\ raised' = HandleResponse(response').raised
            /\ pc' = IF HandleResponse(response').raised THEN "done" ELSE "searched"
            /\ UNCHANGED requests
       ELSE /\ requests' = Append(requests, SearchRequest(query))
            /\ pc' = "await"
            /\ UNCHANGED <<response, web_answer, raised>>
    /\ UNCHANGED <<agent, op, query, threshold, best, nscores, database_answer,
                   result>>
    /\ UNCHANGED <<stt, ui>>

\* search_web lines 97-114: the provider answers (or the request raises) and
\* the answer is formatted
ProviderResponds(Responses) ==
    /\ pc = "await"
    /\ \E r \in Responses :
        /\ response' = r
        /\ web_answer' = HandleResponse(r).ret
        /\ raised' = HandleResponse(r).raised
        /\ pc' = NextAfterResponse(r)
    /\ UNCHANGED <<agent, op, query, threshold, best, nscores, database_answer,
                   result, trace, requests, client_touched>>
    /\ UNCHANGED <<stt, ui>>

\* search_web has returned: to its caller, or to get_answer lines 137-142
ReturnWeb ==
    /\ pc = "searched"
    /\ result' = IF op = "get_answer" THEN [source |-> "web", answer |-> web_answer]
                 ELSE result
    /\ qa_database' = DatabaseAfterWebAnswer(qa_database, query, web_answer)
    /\ pc' = "done"
    /\ UNCHANGED <<file, env_key, wratio, has_questions, tavily_api_key,
                   tavily_client, op, query, threshold, best, nscores,
                   database_answer, response, web_answer, trace, requests,
                   client_touched, raised, stt, ui>>

\* the call is over; the agent waits for the next one
Finish ==
    /\ pc = "done"
    /\ pc' = "idle"
    /\ op' = "" /\ query' = PyNone /\ threshold' = DefaultThreshold
    /\ best' = <<>> /\ nscores' = 0 /\ database_answer' = PyNone
    /\ response' = NoResponse /\ web_answer' = PyNone /\ result' = NoResult
    /\ trace' = <<>> /\ requests' = <<>> /\ client_touched' = FALSE
    /\ raised' = FALSE
    /\ UNCHANGED agent
    /\ UNCHANGED <<stt, ui>>

Next ==
    \/ Construct
    \/ CallGetAnswer
    \/ CallFindBestMatch
    \/ CallSearchWeb
    \/ FindBestMatch
    \/ ReturnDatabase
    \/ SearchUnavailable
    \/ SendRequest
    \/ ProviderResponds(CoreResponses)
    \/ ReturnWeb
    \/ Finish

NextSearch ==
    \/ Construct
    \/ CallGetAnswer
    \/ CallFindBestMatch
    \/ CallSearchWeb
    \/ FindBestMatch
    \/ ReturnDatabase
    \/ SearchUnavailable
    \/ SendRequest
    \/ ProviderResponds(AllResponses)
    \/ ReturnWeb
    \/ Finish

Spec == Init /\ [][Next]_vars

SpecSearch == InitSearch /\ [][NextSearch]_vars

\* lines 122-130: the button is pressed, the upload is written to a temporary
\* file and process_audio_and_answer calls transcribe_audio (line 34)
ProcessQuestion ==
    /\ ui.vpc \in {"idle", "crashed"}
    /\ stt.tpc = "idle"
    /\ ui.tmp_files < MaxTmpFiles
    /\ ui' = [NoRequest EXCEPT !.vpc = "transcribing", !.tmp_files = ui.tmp_files + 1]
    /\ stt' = StartTranscription("audio_processing", "none")
    /\ UNCHANGED <<agent, call>>

\* lines 34-38: transcribe_audio has returned; without a text
\* process_audio_and_answer returns (None, None)
TranscriptionReturned ==
    /\ ui.vpc = "transcribing"
    /\ stt.tpc = "returned"
    /\ ui' = IF TranscriptionFailed(stt.transcription)
             THEN [ui EXCEPT !.transcribed = TRUE,
                             !.transcription = stt.transcription,
                             !.returned = TRUE,
                             !.vpc = "unlink"]
             ELSE [ui EXCEPT !.transcribed = TRUE,
                             !.transcription = stt.transcription,
                             !.vpc = "answer"]
    /\ stt' = NoTranscription
    /\ UNCHANGED <<agent, call>>

\* line 47: load_answer_agent constructs the agent on its first use
LoadAnswerAgent ==
    /\ ui.vpc = "answer"
    /\ Construct

\* line 48: answer_agent.get_answer(transcription)
AskAgent ==
    /\ ui.vpc = "answer"
    /\ pc = "idle"
    /\ op' = "get_answer"
    /\ query' = ui.transcription
    /\ threshold' = DefaultThreshold
    /\ pc' = "match"
    /\ ui' = [ui EXCEPT !.get_answer_calls = @ + 1]
    /\ UNCHANGED <<agent, best, nscores, database_answer, response, web_answer,
                   result, trace, requests, client_touched, raised, stt>>

\* lines 48-50 and 130: get_answer is over.  Its result is returned to main;
\* an exception it raised is caught nowhere and ends the script run before
\* line 133.
AnswerReturned ==
    /\ ui.vpc = "answer"
    /\ pc = "done"
    /\ ui' = IF raised
             THEN [ui EXCEPT !.vpc = "crashed"]
             ELSE [ui EXCEPT !.returned = TRUE,
                             !.ret_transcription = ui.transcription,
                             !.response = result,
                             !.vpc = "unlink"]
    /\ pc' = "idle"
    /\ op' = "" /\ query' = PyNone /\ threshold' = DefaultThreshold
    /\ best' = <<>> /\ nscores' = 0 /\ database_answer' = PyNone
    /\ response' = NoResponse /\ web_answer' = PyNone /\ result' = NoResult
    /\ trace' = <<>> /\ requests' = <<>> /\ client_touched' = FALSE
    /\ raised' = FALSE
    /\ UNCHANGED <<agent, stt>>

\* lines 133-135: os.unlink(tmp_file_path), then if response
Unlink ==
    /\ ui.vpc = "unlink"
    /\ ui' = [ui EXCEPT !.tmp_files = @ - 1,
                        !.vpc = IF ui.response # NoResult THEN "show" ELSE "idle"]
    /\ UNCHANGED <<agent, call, stt>>

\* lines 137-165: the answer is displayed and given to text_to_speech, which
\* returns a file or None
ShowAnswer ==
    /\ ui.vpc = "show"
    /\ \E f \in BOOLEAN :
          ui' = [ui EXCEPT !.displayed = TRUE, !.tts_called = TRUE,
                           !.speech_file = f, !.vpc = "idle"]
    /\ UNCHANGED <<agent, call, stt>>

InitTranscribe == InitWith({QAFile(FALSE, FALSE, <<>>)}, {[p \in NearPairs |-> 0]})

InitVoice == InitWith(VoiceFiles, {[p \in NearPairs |-> 0]})

NextTranscribe ==
    \/ CallTranscribe
    \/ Upload
    \/ RequestTranscript
    \/ PollPending
    \/ PollEnding
    \/ TranscribeDone

NextVoice ==
    \/ ProcessQuestion
    \/ Upload
    \/ RequestTranscript
    \/ PollPending
    \/ PollEnding
    \/ TranscriptionReturned
    \/ LoadAnswerAgent
    \/ AskAgent
    \/ FindBestMatch
    \/ ReturnDatabase
    \/ SearchUnavailable
    \/ SendRequest
    \/ ProviderResponds(CoreResponses)
    \/ ReturnWeb
    \/ AnswerReturned
    \/ Unlink
    \/ ShowAnswer

SpecTranscribe == InitTranscribe /\ [][NextTranscribe]_vars

\* transcribe_audio runs on: a request that was sent gets its answer (or
\* raises), and time.sleep returns.  The last condition is the assumption
\* that the provider at some time reports a terminal status or a poll fails.
SpecTranscribeFair ==
    /\ SpecTranscribe
    /\ WF_vars(Upload)
    /\ WF_vars(RequestTranscript)
    /\ WF_vars(PollPending \/ PollEnding)
    /\ SF_vars(PollEnding)

SpecVoice == InitVoice /\ [][NextVoice]_vars

TypeOK ==
    /\ pc \in {"new", "idle", "match", "return_database", "search", "await",
               "searched", "done"}
    /\ op \in {"", "get_answer", "find_best_match_in_database", "search_web"}
    /\ result.source \in {"", "database", "web"}
    /\ nscores \in 0..(MaxEntries + 1)
    /\ Len(requests) <= 1

-----------------------------------------------------------------------------
(* Vocabulary of the properties *)

Range(f) == {f[i] : i \in DOMAIN f}

\* the matcher has run in the current call
MatcherRan ==
    /\ trace # <<>>
    /\ trace[1] = "find_best_match_in_database"

\* search_web has been entered in the current call
SearchEntered == "search_web" \in Range(trace)

\* search_web has returned in the current call
SearchReturned == SearchEntered /\ pc \in {"searched", "done"} /\ ~raised

\* the matcher ran on a non-empty query and a non-empty database
Scored == MatcherRan /\ query.v # <<>> /\ qa_database # <<>>

\* the score of every entry against the query of the call
Scores == [i \in DOMAIN qa_database |-> Score(query.v, qa_database[i].question)]

MaxIn(sc) == CHOOSE s \in Range(sc) : \A i \in DOMAIN sc : sc[i] <= s

TiedIn(sc) == LET m == MaxIn(sc) IN {i \in DOMAIN sc : sc[i] = m}

BestScore == MaxIn(Scores)

\* the entries that share the best score
TiedBest == TiedIn(Scores)

FirstOf(S) == CHOOSE i \in S : \A j \in S : i <= j

GetAnswerDone == pc = "done" /\ op = "get_answer"

-----------------------------------------------------------------------------
(* C1 *)

-----------------------------------------------------------------------------
(* C2 *)

\* C2: for a non-empty query against a non-empty database, get_answer returns
\* the best entry's stored answer with source "database" when the best score
\* is at least 80, whatever the stored answer text (the empty text included),
\* and the output of search_web with source "web" when it is below 80.
C2_ThresholdSelectsSource ==
    (GetAnswerDone /\ Scored) =>
        LET sc == Scores IN
        IF MaxIn(sc) >= DefaultThreshold
        THEN result = [source |-> "database",
                       answer |-> PyStr(qa_database[FirstOf(TiedIn(sc))].answer)]
        ELSE result = [source |-> "web", answer |-> web_answer] /\ SearchEntered

\* the same statement for the stored answers that are not empty (the part of
\* C2 the code satisfies)
C2_NonEmptyAnswers ==
    (GetAnswerDone /\ Scored /\ qa_database[FirstOf(TiedBest)].answer # <<>>)
        => C2_ThresholdSelectsSource

-----------------------------------------------------------------------------
(* C3 *)

\* C3: the threshold is inclusive: for a non-empty query and database and any
\* threshold t, find_best_match_in_database returns the stored answer of an
\* entry with the best score when that score is >= t, and None when it is
\* < t.
C3_ThresholdInclusive ==
    (Scored /\ pc # "match") =>
        LET sc == Scores
            m == MaxIn(sc)
        IN /\ best # <<>> /\ best[2] = m
           /\ m >= threshold =>
                 \E i \in DOMAIN sc :
                     sc[i] = m /\ database_answer = PyStr(qa_database[i].answer)
           /\ m < threshold => database_answer = PyNone

\* a score of exactly 80 against the threshold 80 is a match
C3_Witness ==
    /\ pc = "done" /\ op = "find_best_match_in_database"
    /\ Scored
    /\ threshold = 80 /\ best[2] = 80
    /\ database_answer = PyStr(<<"x">>)

\* a score of 79 against the threshold 80 is not
C3_Witness79 ==
    /\ pc = "done" /\ op = "find_best_match_in_database"
    /\ Scored
    /\ threshold = 80 /\ best[2] = 79
    /\ database_answer = PyNone

-----------------------------------------------------------------------------
(* C4 *)

\* the entries whose question text is the query itself
ExactEntries == {i \in DOMAIN qa_database : qa_database[i].question = query.v}

\* a character the library's normalization keeps (an ASCII letter or digit)
Alnum(c) == c \in {"a", "A", "b", "B"}

HasAlnum(s) == \E i \in DOMAIN s : Alnum(s[i])

\* C4 as stated: for a query equal to a stored question the matcher scores 100
\* and returns the answer of every entry that carries this question text.
C4_ExactMatchReturnsThatEntry ==
    (MatcherRan /\ pc # "match" /\ threshold = DefaultThreshold /\ ExactEntries # {}) =>
        /\ best # <<>> /\ best[2] = 100
        /\ \A i \in ExactEntries : database_answer = PyStr(qa_database[i].answer)

\* C4 amended: for a query that is equal to a stored question and keeps at
\* least one character under the library's normalization, the matcher scores
\* 100, the entries carrying the query's text are among those scoring 100, and
\* the answer returned is that of the first entry, in database order, that
\* scores 100; it is the answer of the first entry carrying the query's exact
\* text whenever no other entry scoring 100 precedes that one.
C4_ExactMatchFirstEntry ==
    (MatcherRan /\ pc # "match" /\ threshold = DefaultThreshold
       /\ ExactEntries # {} /\ HasAlnum(query.v)) =>
        LET sc == Scores
            first == FirstOf(TiedIn(sc))
        IN /\ best[2] = 100
           /\ MaxIn(sc) = 100
           /\ \A i \in ExactEntries : sc[i] = 100
           /\ database_answer = PyStr(qa_database[first].answer)
           /\ first \in ExactEntries =>
                 database_answer = PyStr(qa_database[FirstOf(ExactEntries)].answer)

\* two entries carry the query's text with different answers
C4_Witness ==
    /\ pc = "done" /\ MatcherRan /\ threshold = DefaultThreshold
    /\ Cardinality(ExactEntries) = 2
    /\ qa_database[1].answer # qa_database[2].answer
    /\ database_answer = PyStr(qa_database[1].answer)

-----------------------------------------------------------------------------
(* C5 *)

\* the entry the look-up by question text (lines 75-77) selects
LookedUp == FirstOf({i \in DOMAIN qa_database : qa_database[i].question = best[1]})

\* C5: when the best score meets the threshold, the answer returned is that
\* of the first entry, in database order, among those with the best score,
\* and the look-up by question text selects this very entry.
C5_FirstOfTiedWins ==
    (Scored /\ pc # "match") =>
        LET sc == Scores
            first == FirstOf(TiedIn(sc))
        IN MaxIn(sc) >= threshold =>
              /\ best[1] = qa_database[first].question
              /\ LookedUp = first
              /\ database_answer = PyStr(qa_database[first].answer)

\* two entries with different question texts and different answers tie
C5_Witness ==
    /\ pc = "done" /\ Scored /\ BestScore >= threshold
    /\ Cardinality(TiedBest) = 2
    /\ qa_database[1].question # qa_database[2].question
    /\ qa_database[1].answer # qa_database[2].answer
    /\ database_answer = PyStr(qa_database[1].answer)

-----------------------------------------------------------------------------
(* C6 *)

\* C6: with an empty query or an empty database the matcher returns None,
\* raises nothing and computes no score, and get_answer goes on to search_web
\* and tags its result "web".
C6_EmptyInputsNoComputation ==
    (MatcherRan /\ (query.v = <<>> \/ qa_database = <<>>)) =>
        /\ database_answer = PyNone
        /\ nscores = 0
        /\ best = <<>>
        /\ ~raised
        /\ op = "get_answer" => pc \in {"search", "await", "searched", "done"}
        /\ GetAnswerDone => result.source = "web" /\ SearchEntered

\* an empty query against a database that is not empty
C6_Witness ==
    /\ GetAnswerDone
    /\ query.v = <<>> /\ qa_database # <<>>
    /\ nscores = 0
    /\ result.source = "web"

-----------------------------------------------------------------------------
(* C7 *)

\* the provider returned a list of results
GotResults == response.exc = "" /\ response.shape = "results"

\* a result is a mapping whose content, when present, is a text
IsMapping(item) == item.kind = "dict" /\ ~(item.has_content /\ item.content_none)

\* the results of the response that the claim counts: the first three
Counted == 1..Min(Len(response.results), 3)

\* positions of the tokens that close an entry of the formatted text
EntryEnds(txt) == {i \in DOMAIN txt : txt[i] = "\n\n"}

\* the k-th entry of the formatted text: what lies between the (k-1)-th and
\* the k-th closing token (the header is the token before the first entry)
EntryOf(txt, k) ==
    LET ends == EntryEnds(txt)
        stop == CHOOSE i \in ends : Cardinality({j \in ends : j <= i}) = k
        prev == {j \in ends : j < stop}
        start == IF prev = {} THEN 2 ELSE (CHOOSE j \in prev : \A h \in prev : h <= j) + 1
    IN SubSeq(txt, start, stop)

\* C7: for a list of n results that are mappings, the text search_web
\* returns has exactly min(n, 3) entries after its header; entry k is built
\* from the k-th result in provider order: the number k, the title, then the
\* first min(length, 300) characters of the content followed by "...".
C7_FirstThreeNumberedTruncated ==
    (SearchReturned /\ GotResults /\ \A k \in Counted : IsMapping(response.results[k])) =>
        LET txt == web_answer.v IN
        /\ web_answer.t = "str"
        /\ txt[1] = Header
        /\ Cardinality(EntryEnds(txt)) = Cardinality(Counted)
        /\ txt = <<Header>> \/ txt[Len(txt)] = "\n\n"
        /\ \A k \in Counted :
            LET e == EntryOf(txt, k)
                item == response.results[k]
                title == IF item.has_title THEN item.title ELSE <<"No title">>
                content == IF item.has_content THEN item.content ELSE <<"No content">>
                n == IF Len(content) <= 300 THEN Len(content) ELSE 300
            IN /\ Len(e) = Len(title) + n + 6
               /\ e[1] = NumStr[k] /\ e[2] = ". "
               /\ \A i \in 1..Len(title) : e[2 + i] = title[i]
               /\ e[Len(title) + 3] = "\n" /\ e[Len(title) + 4] = "   "
               /\ \A i \in 1..n : e[Len(title) + 4 + i] = content[i]
               /\ e[Len(e) - 1] = "..." /\ e[Len(e)] = "\n\n"

\* four results, the second with 301 characters of content, the fourth not
\* even a mapping: three entries, the second cut to 300 characters
C7_Witness ==
    /\ pc = "done" /\ SearchReturned /\ GotResults
    /\ Len(response.results) = 4
    /\ response.results[2] = LongItem
    /\ response.results[1] = ShortItem /\ response.results[3] = ExactItem
    /\ response.results[4] = StrItem
    /\ Cardinality(EntryEnds(web_answer.v)) = 3

-----------------------------------------------------------------------------
(* C8 *)

\* C8: with the credential absent (unset or empty) construction gives a
\* working agent with the database of the file and no search client, and
\* every search_web call returns the fixed message: nothing is raised, no
\* request goes out, the client attribute is never read.
C8_NoCredentialFixedMessage ==
    ~Truthy(env_key) =>
        /\ pc # "new" =>
              /\ tavily_client = "unset"
              /\ file.ok => qa_database = file.data
        /\ ~raised
        /\ requests = <<>>
        /\ ~client_touched
        /\ pc # "await"
        /\ (SearchEntered /\ pc # "search") => web_answer = NoKeyMessage

\* a get_answer call that fell back to the search, without a credential
C8_Witness ==
    /\ ~Truthy(env_key)
    /\ GetAnswerDone /\ SearchEntered
    /\ result = [source |-> "web", answer |-> NoKeyMessage]
    /\ qa_database # <<>>

-----------------------------------------------------------------------------
(* C9 *)

\* the provider failed: the request raised, or the response or one of the
\* results that are formatted is malformed
ProviderError ==
    \/ response.exc # ""
    \/ response.shape \in {"scalar", "results_none"}
    \/ GotResults /\ \E k \in Counted : ~IsMapping(response.results[k])

\* C9: with the credential present no exception escapes search_web or
\* get_answer; after a provider error search_web returns a text (the apology
\* followed by the error), and get_answer returns it tagged "web".
C9_ProviderErrorsBecomeText ==
    Truthy(env_key) =>
        /\ ~raised
        /\ (SearchEntered /\ pc \in {"searched", "done"} /\ ProviderError) =>
              /\ web_answer.t = "str"
              /\ Len(web_answer.v) = 2 /\ web_answer.v[1] = ErrorPrefix
              /\ GetAnswerDone => result = [source |-> "web", answer |-> web_answer]

\* a malformed result met while formatting, in a get_answer call
C9_Witness ==
    /\ Truthy(env_key) /\ GetAnswerDone
    /\ GotResults /\ response.results = <<ShortItem, StrItem>>
    /\ result.source = "web"
    /\ result.answer.v[1] = ErrorPrefix

-----------------------------------------------------------------------------
(* C10 *)

\* C10: a call sends at most one request; once search_web has gone past its
\* credential test with a key it has sent exactly one, for the query of the
\* call and with depth "advanced", whatever the provider answered; a failed
\* request is not sent again.
C10_OneAdvancedRequest ==
    /\ Len(requests) <= 1
    /\ (Truthy(env_key) /\ SearchEntered) =>
          requests = <<[query |-> query, search_depth |-> "advanced"]>>
    /\ ~SearchEntered => requests = <<>>

\* a get_answer call whose only request failed
C10_Witness ==
    /\ GetAnswerDone /\ Truthy(env_key)
    /\ response.exc # ""
    /\ Len(requests) = 1
    /\ result.source = "web"

-----------------------------------------------------------------------------
(* C13: once the agent is constructed, no step of a find_best_match_in_-   *)
(* database, search_web or get_answer call, failing and web-fallback calls *)
(* included, changes the QA database or any other state of the agent; the  *)
(* result of a get_answer call is the one the database as loaded from the  *)
(* file, the key of the environment, the query and the provider's answer   *)
(* determine, whatever calls came before.                                  *)

\* the database the file gives when it is loaded
LoadedDatabase == IF file.ok THEN file.data ELSE <<>>

\* the result of the current get_answer call as the loaded state gives it
ResultFromLoadedState ==
    LET m == find_best_match_in_database(query, DefaultThreshold, LoadedDatabase) IN
    IF Truthy(m.answer) THEN [source |-> "database", answer |-> m.answer]
    ELSE [source |-> "web",
          answer |-> IF Truthy(env_key) THEN HandleResponse(response).ret
                     ELSE NoKeyMessage]

C13_QueriesChangeNoState ==
    /\ [][pc # "new" => UNCHANGED agent]_vars
    /\ [](GetAnswerDone /\ ~raised => result = ResultFromLoadedState)

\* a get_answer call that fell back to the web and whose request failed is
\* over, on a database that has entries
C13_Witness ==
    /\ GetAnswerDone
    /\ result.source = "web"
    /\ response.exc # ""
    /\ qa_database # <<>>

-----------------------------------------------------------------------------
(* C16: when the QA database file cannot be loaded, the agent is           *)
(* constructed all the same, with the empty database, and every get_answer *)
(* call returns with the source "web".                                     *)

C16_UnloadableFileEmptyDatabase ==
    ~file.ok =>
        /\ pc # "new" => qa_database = <<>> /\ has_questions
        /\ GetAnswerDone => ~raised /\ result.source = "web"

\* the agent built on an unloadable file has answered a non-empty query
C16_Witness ==
    /\ ~file.ok
    /\ GetAnswerDone
    /\ Truthy(query)
    /\ result.source = "web"

-----------------------------------------------------------------------------
(* Vocabulary of the properties of transcribe_audio *)

\* the poll answer carries a terminal status
Terminal(r) == ~r.exc /\ r.body \in {"completed", "error"}

\* the poll answer carries a status that is not terminal
NonTerminal(r) == ~r.exc /\ r.body \in {"queued", "processing"}

\* the request failed: a transport error or a status code outside 2xx
Failed(r) == r.exc \/ r.code < 200 \/ r.code > 299

Returned == stt.tpc = "returned"

-----------------------------------------------------------------------------
(* C11: in transcribe_audio, of audio_processing and of speech_recognition, *)
(* polling stops at the first terminal status: after a poll answered       *)
(* 'completed' or 'error' there is no further poll; the call returns the   *)
(* transcript text for 'completed' and None for 'error', and it returns a  *)
(* transcript only when 'completed' was observed.                          *)

C11_TerminalStatusEndsPolling ==
    /\ stt.npolls >= 2 => ~Terminal(stt.prev_poll)
    /\ stt.npolls >= 1 /\ Terminal(stt.poll) => Returned
    /\ Returned /\ stt.npolls >= 1 /\ ~stt.poll.exc =>
          /\ stt.poll.body = "completed" => stt.transcription = stt.poll.text
          /\ stt.poll.body = "error" => stt.transcription = PyNone
    /\ Returned /\ stt.transcription # PyNone =>
          stt.npolls >= 1 /\ ~stt.poll.exc /\ stt.poll.body = "completed"

-----------------------------------------------------------------------------
(* C12: the polling loop has no attempt limit and no deadline: the call    *)
(* returns from the loop only on a poll that failed or that carried a      *)
(* terminal status, never on one more non-terminal answer; and when the    *)
(* provider at some time reports a terminal status or a poll fails, the    *)
(* call that was started returns.                                          *)

-----------------------------------------------------------------------------
(* C14: transcribe_audio runs upload, transcript request and polling in    *)
(* this order; a failure of any step (a non-2xx response or a transport    *)
(* error) ends the call with None: no transcript request after a failed    *)
(* upload, no poll after a failed transcript request, and a failed poll    *)
(* ends the loop without a further poll.                                   *)

C14_FailureAbortsWithNone ==
    /\ stt.nuploads <= 1 /\ stt.nrequests <= 1
    /\ stt.nrequests >= 1 => stt.nuploads = 1 /\ ~Failed(stt.upload)
    /\ stt.npolls >= 1 => stt.nrequests = 1 /\ ~Failed(stt.request)
    /\ stt.nuploads >= 1 /\ Failed(stt.upload) =>
          Returned /\ stt.transcription = PyNone
    /\ stt.nrequests >= 1 /\ Failed(stt.request) =>
          Returned /\ stt.transcription = PyNone
    /\ stt.npolls >= 1 /\ Failed(stt.poll) =>
          Returned /\ stt.transcription = PyNone
    /\ stt.npolls >= 2 => ~Failed(stt.prev_poll)

-----------------------------------------------------------------------------
(* C15: in the voice_assistant pipeline the answer agent and the speech    *)
(* synthesis are used only after a transcription that gave a text: when    *)
(* transcribe_audio returns no text (None, or the empty text of a          *)
(* completed job), process_audio_and_answer returns (None, None),          *)
(* get_answer is not called, no answer is displayed and no speech is       *)
(* synthesized.                                                            *)

C15_NoTextNoAnswer ==
    /\ ui.get_answer_calls > 0 \/ ui.displayed \/ ui.tts_called =>
          ui.transcribed /\ Truthy(ui.transcription)
    /\ ui.vpc # "answer" => pc \in {"new", "idle"}
    /\ ui.transcribed /\ ~Truthy(ui.transcription) =>
          /\ ui.returned
          /\ ui.ret_transcription = PyNone
          /\ ui.response = NoResult
          /\ ui.get_answer_calls = 0
          /\ ~ui.displayed /\ ~ui.tts_called /\ ~ui.speech_file
          /\ ui.vpc \in {"unlink", "idle"}

\* a request whose job completed with the empty text is over
C15_Witness ==
    /\ ui.transcribed
    /\ ui.transcription = PyStr(<<>>)
    /\ ui.vpc = "idle"

-----------------------------------------------------------------------------
(* C17: in voice_assistant.main the temporary audio file of a request is   *)
(* removed once its processing has ended, on every outcome (success,       *)
(* transcription failure, web fallback, an error raised while answering):  *)
(* no temporary input file is left when no request is being processed.     *)

C17_TempFileRemoved ==
    ui.vpc \in {"idle", "show", "crashed"} => ui.tmp_files = 0

====
